---- MODULE Spec2Model ----
(***************************************************************************)
(* Model of run_jira_report.py: the comment parser (parse_comment), the    *)
(* collection loop of main, the row layout of generate_excel_report and    *)
(* the second pass of format_excel_file.                                   *)
(***************************************************************************)
EXTENDS Integers, Sequences, FiniteSets, TLC

VARIABLES
    pc,          \* position of main: see the actions below
    PROJECT_KEY, \* config["credentials"]["PROJECT_KEY"]
    jira,        \* the tracker at JIRA_BASE_URL: its statuses and comment times
    epics,       \* epics["issues"] as returned by the epic fetch
    ei,          \* index of the epic the loop of main is at
    children,    \* child issues of the current epic still to be processed
    subs,        \* sub-tasks of the current child issue still to be processed
    parent,      \* key of the child issue whose sub-tasks are being processed
    issued,      \* number of child issues and sub-tasks fetched so far
    data,        \* the list `data` of main
    excel_data,  \* the rows built by generate_excel_report
    workbook,    \* the saved report file (NoFile until it is written)
    plain,       \* args.plain, once main has read it
    error,       \* the exception that left main ("" while none has)
    doc,         \* input of parse_comment (parser specification)
    parsed       \* outcome of parse_comment (parser specification)

vars == <<pc, PROJECT_KEY, jira, epics, ei, children, subs, parent, issued, data,
          excel_data, workbook, plain, error, doc, parsed>>

(***************************************************************************)
(* JSON values.  A value is tagged with its Python type; a dict keeps its  *)
(* items in the record d.                                                  *)
(***************************************************************************)
Null == [j |-> "null"]
Str(s) == [j |-> "str", s |-> s]
List(xs) == [j |-> "list", xs |-> xs]
Dict(d) == [j |-> "dict", d |-> d]

\* v[k] succeeds: v is a dict that holds k (otherwise KeyError / TypeError)
HasItem(v, k) == v.j = "dict" /\ k \in DOMAIN v.d

\* outcome of a call: a returned string, or a raised exception
Returned(s) == [ok |-> TRUE, val |-> s]
Raised == [ok |-> FALSE, val |-> ""]

RECURSIVE Join(_, _)
\* sep.join(strs)
Join(sep, strs) ==
    IF strs = <<>> THEN ""
    ELSE IF Len(strs) = 1 THEN strs[1]
    ELSE strs[1] \o sep \o Join(sep, Tail(strs))

\* the elements `for x in v` visits; ok = FALSE when v is not iterable
Iterate(v) ==
    CASE v.j = "list" -> [ok |-> TRUE, xs |-> v.xs]
      [] v.j = "null" -> [ok |-> FALSE, xs |-> <<>>]
      [] v.j = "str" -> [ok |-> TRUE, xs |-> IF v.s = "" THEN <<>> ELSE <<Str(v.s)>>]
      [] OTHER -> [ok |-> TRUE, xs |-> <<>>]

\* block.get("content", [])
GetContent(block) == IF "content" \in DOMAIN block.d THEN block.d.content ELSE List(<<>>)

RECURSIVE ParagraphText(_)
\* the loop of the paragraph branch: the texts of the text children
ParagraphText(cs) ==
    IF cs = <<>> THEN [ok |-> TRUE, xs |-> <<>>]
    ELSE LET c == Head(cs)
             rest == ParagraphText(Tail(cs))
         IN IF ~HasItem(c, "type") THEN [ok |-> FALSE, xs |-> <<>>]
            ELSE IF c.d.type = Str("text")
                 THEN IF ~HasItem(c, "text") \/ ~rest.ok
                      THEN [ok |-> FALSE, xs |-> <<>>]
                      ELSE [ok |-> TRUE, xs |-> <<c.d.text>> \o rest.xs]
                 ELSE rest

\* " ".join(paragraph_text): raises on an item that is no str
JoinValues(sep, vals) ==
    IF \A n \in 1..Len(vals) : vals[n].j = "str"
    THEN Returned(Join(sep, [n \in 1..Len(vals) |-> vals[n].s]))
    ELSE Raised

ParseParagraph(block) ==
    LET it == Iterate(GetContent(block))
        texts == ParagraphText(it.xs)
    IN IF ~it.ok \/ ~texts.ok THEN Raised ELSE JoinValues(" ", texts.xs)

RECURSIVE ListItemText(_)
\* the loop of the listItem branch: parse_block of the paragraph children
ListItemText(cs) ==
    IF cs = <<>> THEN [ok |-> TRUE, xs |-> <<>>]
    ELSE LET c == Head(cs)
             rest == ListItemText(Tail(cs))
         IN IF ~HasItem(c, "type") THEN [ok |-> FALSE, xs |-> <<>>]
            ELSE IF c.d.type = Str("paragraph")
                 THEN LET p == ParseParagraph(c)
                      IN IF ~p.ok \/ ~rest.ok
                         THEN [ok |-> FALSE, xs |-> <<>>]
                         ELSE [ok |-> TRUE, xs |-> <<p.val>> \o rest.xs]
                 ELSE rest

\* a list item written without its "- " prefix
ParseListItemNoPrefix(block) ==
    LET it == Iterate(GetContent(block))
        texts == ListItemText(it.xs)
    IN IF ~it.ok \/ ~texts.ok THEN Raised
       ELSE Returned(Join(" ", texts.xs))

ParseListItem(block) ==
    LET it == Iterate(GetContent(block))
        texts == ListItemText(it.xs)
    IN IF ~it.ok \/ ~texts.ok THEN Raised
       ELSE Returned("- " \o Join(" ", texts.xs))

RECURSIVE ListText(_)
\* the loop of the orderedList / bulletList branch
ListText(cs) ==
    IF cs = <<>> THEN [ok |-> TRUE, xs |-> <<>>]
    ELSE LET c == Head(cs)
             rest == ListText(Tail(cs))
         IN IF ~HasItem(c, "type") THEN [ok |-> FALSE, xs |-> <<>>]
            ELSE IF c.d.type = Str("listItem")
                 THEN LET p == ParseListItem(c)
                      IN IF ~p.ok \/ ~rest.ok
                         THEN [ok |-> FALSE, xs |-> <<>>]
                         ELSE [ok |-> TRUE, xs |-> <<p.val>> \o rest.xs]
                 ELSE rest

ParseList(block) ==
    LET it == Iterate(GetContent(block))
        texts == ListText(it.xs)
    IN IF ~it.ok \/ ~texts.ok THEN Raised
       ELSE Returned(Join("\n", texts.xs))

\* parse_block
parse_block(block) ==
    IF ~HasItem(block, "type") THEN Raised
    ELSE CASE block.d.type = Str("paragraph") -> ParseParagraph(block)
           [] block.d.type = Str("listItem") -> ParseListItem(block)
           [] block.d.type \in {Str("orderedList"), Str("bulletList")} -> ParseList(block)
           [] OTHER -> Returned("")

RECURSIVE DocText(_)
\* the loop of parse_comment: the non-empty parse_block results
DocText(bs) ==
    IF bs = <<>> THEN [ok |-> TRUE, xs |-> <<>>]
    ELSE LET p == parse_block(Head(bs))
             rest == DocText(Tail(bs))
         IN IF ~p.ok \/ ~rest.ok THEN [ok |-> FALSE, xs |-> <<>>]
            ELSE [ok |-> TRUE,
                  xs |-> (IF p.val # "" THEN <<p.val>> ELSE <<>>) \o rest.xs]

\* order in which json.dumps writes the items of the dicts used here
DumpKeys == <<"type", "content", "text", "version">>

RECURSIVE Pad(_)
Pad(n) == IF n = 0 THEN "" ELSE "  " \o Pad(n - 1)

RECURSIVE json_dumps(_, _)
\* json.dumps(v, indent=2), at nesting level lvl
json_dumps(v, lvl) ==
    CASE v.j = "null" -> "null"
      [] v.j = "str" -> "\"" \o v.s \o "\""
      [] v.j = "list" ->
           IF v.xs = <<>> THEN "[]"
           ELSE "[\n"
                \o Join(",\n", [n \in 1..Len(v.xs) |->
                                   Pad(lvl + 1) \o json_dumps(v.xs[n], lvl + 1)])
                \o "\n" \o Pad(lvl) \o "]"
      [] OTHER ->
           LET ks == SelectSeq(DumpKeys, LAMBDA k : k \in DOMAIN v.d)
           IN IF ks = <<>> THEN "{}"
              ELSE "{\n"
                   \o Join(",\n", [n \in 1..Len(ks) |->
                                      Pad(lvl + 1) \o "\"" \o ks[n] \o "\": "
                                      \o json_dumps(v.d[ks[n]], lvl + 1)])
                   \o "\n" \o Pad(lvl) \o "}"

\* parse_comment
parse_comment(comment_json) ==
    IF comment_json.j = "dict" /\ "type" \in DOMAIN comment_json.d
       /\ comment_json.d.type = Str("doc")
    THEN LET it == Iterate(GetContent(comment_json))
             text == DocText(it.xs)
         IN IF ~it.ok \/ ~text.ok THEN Raised ELSE Returned(Join("\n", text.xs))
    ELSE Returned(json_dumps(comment_json, 0))

(***************************************************************************)
(* Bounds of the model.                                                    *)
(***************************************************************************)
MaxEpics == 2     \* epics returned by the epic fetch
MaxIssues == 3    \* child issues and sub-tasks fetched in one run
MaxRuns == 2      \* children of one paragraph (parser specification)
MaxBlocks == 2    \* top-level blocks of one document (parser specification)

(***************************************************************************)
(* Texts.  A status is a sequence of characters, so that strip() is        *)
(* computed; keys and header lines are kept by their parts.                *)
(***************************************************************************)
InProgress == <<"I", "n", " ", "P", "r", "o", "g", "r", "e", "s", "s">>
Waiting == <<"W", "a", "i", "t", "i", "n", "g">>
ForApproval == <<"F", "o", "r", " ", "a", "p", "p", "r", "o", "v", "a", "l">>
New == <<"N", "e", "w">>
Done == <<"D", "o", "n", "e">>
DonePadded == <<" ", "D", "o", "n", "e", " ">>
DoneLower == <<"d", "o", "n", "e">>

\* the text "" / the marker of the spacer row / "{PROJECT}-{num}" /
\* "{summary} ({PROJECT}-{num})"
EmptyText == [kind |-> "empty"]
SpacerMark == [kind |-> "marker"]
KeyText(proj, num) == [kind |-> "key", proj |-> proj, num |-> num]
HeaderText(summary, key) ==
    [kind |-> "header", summary |-> summary, proj |-> key.proj, num |-> key.num]

\* a cell that holds nothing (None / NaN), and Python ints
None == [kind |-> "none"]
PyInt(n) == [kind |-> "int", n |-> n]

RECURSIVE Digits(_)
\* the decimal digits of n, as str(n) writes them
Digits(n) == IF n < 10 THEN <<n>> ELSE Append(Digits(n \div 10), n % 10)

RECURSIVE SeqLess(_, _)
\* s < t for strings given as sequences of character codes
SeqLess(s, t) ==
    IF t = <<>> THEN FALSE
    ELSE IF s = <<>> THEN TRUE
    ELSE IF s[1] # t[1] THEN s[1] < t[1]
    ELSE SeqLess(Tail(s), Tail(t))

\* a < b for two keys of one project, compared as Python compares str
KeyStrLess(a, b) == SeqLess(Digits(a.num), Digits(b.num))

\* the n-th epic and the n-th work item of the project, in key order
EpicNum(n) == 8 + n
IssueNum(n) == 97 + n

(***************************************************************************)
(* Comment timestamps.  datetime is the local wall-clock reading, tz the   *)
(* UTC offset, both in hours.                                              *)
(***************************************************************************)
\* the point in time a timestamp denotes
Instant(d) == d.datetime - d.tz

\* "+HHMM" < "-HHMM" as text: the sign first ('+' sorts before '-'), then the digits
TzTextLess(a, b) ==
    IF (a < 0) # (b < 0) THEN b < 0
    ELSE IF a < 0 THEN -a < -b ELSE a < b

\* s < t for two strings written by strftime('%Y-%m-%d %H:%M:%S %z')
DateTextLess(s, t) ==
    \/ s.datetime < t.datetime
    \/ s.datetime = t.datetime /\ TzTextLess(s.tz, t.tz)

\* datetime.strptime with the two accepted formats, then strftime
FormatCommentDate(created) ==
    IF created.fmt \in {"%Y-%m-%dT%H:%M:%S.%f%z", "%Y-%m-%dT%H:%M:%S%z"}
    THEN [ok |-> TRUE,
          val |-> [kind |-> "date", datetime |-> created.datetime, tz |-> created.tz]]
    ELSE [ok |-> FALSE, val |-> None]

\* fetch_most_recent_comment, given the reply of the comment request; err names
\* the exception it re-raises
fetch_most_recent_comment(reply) ==
    IF reply.status # 200 THEN [ok |-> FALSE, err |-> "HTTPError", body |-> "", date |-> None]
    ELSE IF reply.comments = <<>>
    THEN [ok |-> TRUE, err |-> "", body |-> " ", date |-> None]
    ELSE CHOOSE result \in
           {IF ~comment_body.ok
            THEN [ok |-> FALSE, err |-> "KeyError", body |-> "", date |-> None]
            ELSE IF ~dt.ok
            THEN [ok |-> FALSE, err |-> "ValueError", body |-> "", date |-> None]
            ELSE [ok |-> TRUE, err |-> "", body |-> comment_body.val, date |-> dt.val] :
               comment_body \in {parse_comment(reply.comments[Len(reply.comments)].body)},
               dt \in {FormatCommentDate(reply.comments[Len(reply.comments)].created)}} : TRUE

(***************************************************************************)
(* The records main appends to `data`.  A key the dict does not hold is    *)
(* NaN in the DataFrame built from the list.                               *)
(***************************************************************************)
NaN == [kind |-> "nan"]
NoKey == [kind |-> "key", proj |-> "", num |-> 0]
EmptyDate == [kind |-> "empty"]
NaNStatus == <<"NaN">>

\* the dict process_child_issue appends
TaskRecord(epic, child, comment) ==
    [EpicKey |-> epic.key, EpicSummary |-> epic.summary,
     ChildKey |-> child.key, ChildSummary |-> child.summary,
     ChildStatus |-> child.status, CommentDate |-> comment.date,
     MostRecentComment |-> comment.body, Type |-> "Task", Parent |-> NaN,
     Indent |-> PyInt(0)]

\* the dict process_sub_task appends
SubTaskRecord(epic, parent_key, sub_task, comment) ==
    [EpicKey |-> epic.key, EpicSummary |-> epic.summary,
     ChildKey |-> sub_task.key, ChildSummary |-> sub_task.summary,
     ChildStatus |-> sub_task.status, CommentDate |-> comment.date,
     MostRecentComment |-> comment.body, Type |-> "Sub-Task", Parent |-> parent_key,
     Indent |-> PyInt(1)]

\* the dict main appends for an epic without child issues
PlaceholderRecord(epic) ==
    [EpicKey |-> epic.key, EpicSummary |-> epic.summary,
     ChildKey |-> NoKey, ChildSummary |-> "No tasks created",
     ChildStatus |-> NaNStatus, CommentDate |-> EmptyDate,
     MostRecentComment |-> "", Type |-> "NaN", Parent |-> NaN, Indent |-> NaN]

(***************************************************************************)
(* generate_excel_report                                                   *)
(***************************************************************************)
\* statuses the dict does not hold filled with 0 instead of 5
status_order_fill0(status) ==
    CASE status = InProgress -> 1
      [] status = Waiting -> 2
      [] status = ForApproval -> 3
      [] status = New -> 4
      [] status = Done -> 5
      [] OTHER -> 0

\* status_order, with fillna(5) for every status the dict does not hold
status_order(status) ==
    CASE status = InProgress -> 1
      [] status = Waiting -> 2
      [] status = ForApproval -> 3
      [] status = New -> 4
      [] status = Done -> 5
      [] OTHER -> 5

\* the DataFrame has the column: some record of the list holds the key
HasTypeColumn(d) == \E n \in 1..Len(d) : d[n].Type # "NaN"
HasParentColumn(d) == \E n \in 1..Len(d) : d[n].Parent # NaN

\* descending order of the "Comment Date" strings, missing values last
DateBefore(a, b) ==
    /\ a.kind = "date"
    /\ b.kind = "date" => DateTextLess(b, a)

DateSame(a, b) ==
    IF a.kind = "date" /\ b.kind = "date"
    THEN ~DateTextLess(a, b) /\ ~DateTextLess(b, a)
    ELSE a.kind # "date" /\ b.kind # "date"

\* ascending order of the "Parent" strings
ParentBefore(a, b) == a.kind = "key" /\ b.kind = "key" /\ KeyStrLess(a, b)

\* a sorts strictly before b under sort_values(by=[status, date(, parent)])
RowBefore(a, b, byParent) ==
    LET ra == status_order(a.ChildStatus)
        rb == status_order(b.ChildStatus)
    IN \/ ra < rb
       \/ /\ ra = rb
          /\ \/ DateBefore(a.CommentDate, b.CommentDate)
             \/ /\ DateSame(a.CommentDate, b.CommentDate)
                /\ byParent
                /\ ParentBefore(a.Parent, b.Parent)

RECURSIVE sort_values(_, _)
\* DataFrame.sort_values: a stable sort (equal keys keep their order)
sort_values(rows, byParent) ==
    IF rows = <<>> THEN <<>>
    ELSE LET n == Len(rows)
             x == rows[n]
             init == sort_values(SubSeq(rows, 1, n - 1), byParent)
             after == {m \in 1..Len(init) : RowBefore(x, init[m], byParent)}
             at == IF after = {} THEN Len(init) + 1
                   ELSE CHOOSE m \in after : \A k \in after : m <= k
         IN SubSeq(init, 1, at - 1) \o <<x>> \o SubSeq(init, at, Len(init))

RECURSIVE SortKeys(_)
\* the group keys in the order groupby yields them: sorted as strings
SortKeys(ks) ==
    IF ks = {} THEN <<>>
    ELSE LET least == CHOOSE k \in ks : \A o \in ks \ {k} : KeyStrLess(k, o)
         IN <<least>> \o SortKeys(ks \ {least})

\* pd.DataFrame(data).groupby("Epic Key"): the keys of the groups, in order
groupby(d) == SortKeys({d[n].EpicKey : n \in 1..Len(d)})

\* one row of excel_data for a child issue or a sub-task
DataRow(r) ==
    [A |-> EmptyText, B |-> r.ChildKey, C |-> r.ChildSummary, D |-> r.ChildStatus,
     E |-> r.CommentDate, F |-> r.MostRecentComment, G |-> r.Indent]

HeaderRow(summary, key) ==
    [A |-> HeaderText(summary, key), B |-> NoKey, C |-> "", D |-> <<>>,
     E |-> EmptyDate, F |-> "", G |-> None]

SpacerRow ==
    [A |-> SpacerMark, B |-> NoKey, C |-> "", D |-> <<>>,
     E |-> EmptyDate, F |-> "", G |-> EmptyText]

\* the sorted sub-tasks appended after all child issues, not regrouped by parent
CombineRowsFlat(child_issues, sub_tasks) ==
    [n \in 1..Len(child_issues) |-> [A |-> EmptyText, B |-> child_issues[n].ChildKey,
                                      C |-> child_issues[n].ChildSummary,
                                      D |-> child_issues[n].ChildStatus,
                                      E |-> child_issues[n].CommentDate,
                                      F |-> child_issues[n].MostRecentComment,
                                      G |-> child_issues[n].Indent]]
    \o [n \in 1..Len(sub_tasks) |-> [A |-> EmptyText, B |-> sub_tasks[n].ChildKey,
                                     C |-> sub_tasks[n].ChildSummary,
                                     D |-> sub_tasks[n].ChildStatus,
                                     E |-> sub_tasks[n].CommentDate,
                                     F |-> sub_tasks[n].MostRecentComment,
                                     G |-> sub_tasks[n].Indent]]

RECURSIVE CombineRows(_, _)
\* the loop "Combine sorted rows": each child issue, then its sub-tasks
CombineRows(child_issues, sub_tasks) ==
    IF child_issues = <<>> THEN <<>>
    ELSE LET child_row == Head(child_issues)
             sub_task_rows ==
                 SelectSeq(sub_tasks, LAMBDA r : r.Parent = child_row.ChildKey)
         IN <<DataRow(child_row)>>
            \o [n \in 1..Len(sub_task_rows) |-> DataRow(sub_task_rows[n])]
            \o CombineRows(Tail(child_issues), sub_tasks)

\* the block built from all records instead of the group of the epic
EpicBlockUngrouped(d, epic_key) ==
    LET group == SelectSeq(d, LAMBDA r : r.EpicKey = epic_key)
        child_issues == sort_values(SelectSeq(d, LAMBDA r : r.Type = "Task"), FALSE)
        sub_tasks == sort_values(SelectSeq(d, LAMBDA r : r.Type = "Sub-Task"), TRUE)
    IN <<HeaderRow(group[1].EpicSummary, epic_key)>>
       \o CombineRows(child_issues, sub_tasks)
       \o <<SpacerRow>>

\* the rows of one group of the groupby loop
EpicBlock(d, epic_key) ==
    LET group == SelectSeq(d, LAMBDA r : r.EpicKey = epic_key)
        child_issues == sort_values(SelectSeq(group, LAMBDA r : r.Type = "Task"), FALSE)
        sub_tasks == sort_values(SelectSeq(group, LAMBDA r : r.Type = "Sub-Task"), TRUE)
    IN <<HeaderRow(group[1].EpicSummary, epic_key)>>
       \o CombineRows(child_issues, sub_tasks)
       \o <<SpacerRow>>

RECURSIVE Blocks(_, _)
Blocks(d, keys) ==
    IF keys = <<>> THEN <<>> ELSE EpicBlock(d, Head(keys)) \o Blocks(d, Tail(keys))

\* generate_excel_report: the rows, or the KeyError of a missing column
generate_excel_report(d) ==
    IF ~HasTypeColumn(d) \/ ~HasParentColumn(d)
    THEN [ok |-> FALSE, rows |-> <<>>]
    ELSE [ok |-> TRUE, rows |-> Blocks(d, groupby(d))]

(***************************************************************************)
(* The report file.  to_excel writes "" and missing values as empty cells, *)
(* which load_workbook reads back as None; in the text columns C, D and F  *)
(* the empty cell is written "" / <<>> here.                               *)
(***************************************************************************)
NoFile == [saved |-> FALSE, rows |-> <<>>]

ExcelCell(v) == IF v \in {EmptyText, NoKey, EmptyDate, NaN, None} THEN None ELSE v

\* one row of the sheet as pd.DataFrame(excel_data).to_excel leaves it
ExcelRow(r) ==
    [A |-> ExcelCell(r.A), B |-> ExcelCell(r.B), C |-> r.C,
     D |-> IF r.D = NaNStatus THEN <<>> ELSE r.D,
     E |-> ExcelCell(r.E), F |-> r.F, G |-> ExcelCell(r.G),
     merged |-> "", header_style |-> FALSE, done_fill |-> {}, spacer_fill |-> FALSE,
     indent |-> 0]

to_excel(rows) == [saved |-> TRUE, rows |-> [n \in 1..Len(rows) |-> ExcelRow(rows[n])]]

(***************************************************************************)
(* format_excel_file                                                       *)
(***************************************************************************)
Whitespace == {" ", "\t", "\n"}

RECURSIVE LStrip(_)
LStrip(s) == IF s # <<>> /\ Head(s) \in Whitespace THEN LStrip(Tail(s)) ELSE s

RECURSIVE RStrip(_)
RStrip(s) ==
    IF s # <<>> /\ s[Len(s)] \in Whitespace THEN RStrip(SubSeq(s, 1, Len(s) - 1)) ELSE s

\* str.strip()
strip(s) == RStrip(LStrip(s))

\* epic_header_pattern.match(cell_value): r'.+\(NOOPT-\d+\)$'.  The text of a
\* header is "{summary} ({proj}-{num})"; the summaries used hold no line break.
epic_header_pattern(cell) == cell.kind = "header" /\ cell.proj = "NOOPT"

\* the status compared without strip()
IsDoneCellExact(d) == d = Done

\* the value and D.strip() == "Done" test of the row loop
IsDoneCell(d) == d # <<>> /\ strip(d) = Done

\* apply_done_style: the columns filled with done_fill
apply_done_style(indent) ==
    IF indent = 0 THEN {"A", "B", "C", "D", "E", "F"} ELSE {"B", "C", "D", "E", "F"}

\* the body of the while loop of format_excel_file, for one row, followed by
\* delete_cols(7) and the save ("" is saved as an empty cell)
FormatRow(r) ==
    IF epic_header_pattern(r.A)
    THEN [r EXCEPT !.merged = "A:F", !.header_style = TRUE, !.G = None]
    ELSE LET has_indent == r.G # None
             row_key == IF has_indent THEN r.B ELSE None
             indent_level == IF r.A = SpacerMark THEN 3
                             ELSE IF has_indent THEN r.G.n ELSE 1
             fill == IF IsDoneCell(r.D) THEN apply_done_style(indent_level) ELSE {}
         IN CASE indent_level = 0 ->
                   [r EXCEPT !.A = row_key, !.B = None, !.merged = "A:B",
                             !.done_fill = fill, !.indent = 0, !.G = None]
              [] indent_level = 1 ->
                   [r EXCEPT !.A = None, !.B = row_key, !.spacer_fill = TRUE,
                             !.done_fill = fill, !.indent = 1, !.G = None]
              [] OTHER ->
                   [r EXCEPT !.A = None, !.done_fill = fill,
                             !.indent = indent_level, !.G = None]

format_excel_file(wb) ==
    [saved |-> TRUE, rows |-> [n \in 1..Len(wb.rows) |-> FormatRow(wb.rows[n])]]

(***************************************************************************)
(* Replies of the issue tracker.                                           *)
(***************************************************************************)
RECURSIVE SeqsOf(_, _)
\* the sequences over S of length n
SeqsOf(S, n) ==
    IF n = 0 THEN {<<>>}
    ELSE {Append(q, x) : q \in SeqsOf(S, n - 1), x \in S}

SeqsUpTo(S, n) == UNION {SeqsOf(S, k) : k \in 0..n}

HttpError == [status |-> 500, issues |-> <<>>]

\* the epics of the project in key order (ORDER BY key ASC)
EpicReplies(proj) ==
    {HttpError} \cup
    {[status |-> 200,
      issues |-> [k \in 1..n |-> [key |-> KeyText(proj, EpicNum(k)),
                                  summary |-> "Epic"]]] : n \in 0..MaxEpics}

\* child issues or sub-tasks, numbered after the `used` work items seen so
\* far, each in one of the statuses of the tracker's workflow
IssueReplies(proj, tracker, used) ==
    {HttpError} \cup
    {[status |-> 200,
      issues |-> [k \in 1..Len(q) |-> [key |-> KeyText(proj, IssueNum(used + k)),
                                       summary |-> "Work item",
                                       status |-> q[k]]]] :
        q \in SeqsUpTo(tracker.statuses, MaxIssues - used)}

GoodBody ==
    Dict([type |-> Str("doc"),
          content |-> List(<<Dict([type |-> Str("paragraph"),
                                   content |-> List(<<Dict([type |-> Str("text"),
                                                            text |-> Str("ok")])>>)])>>)])
BadBody == Dict([type |-> Str("doc"), content |-> List(<<Dict([text |-> Str("ok")])>>)])

Created(fmt, datetime, tz) == [fmt |-> fmt, datetime |-> datetime, tz |-> tz]
EarlyEast == Created("%Y-%m-%dT%H:%M:%S.%f%z", 10, 5)
LateUtc == Created("%Y-%m-%dT%H:%M:%S%z", 9, 0)
BadTimestamp == Created("%d/%m/%Y", 9, 0)

\* the replies of the comment request for one issue
CommentReplies(tracker) ==
    {[status |-> 404, comments |-> <<>>], [status |-> 200, comments |-> <<>>],
     [status |-> 200, comments |-> <<[body |-> GoodBody, created |-> BadTimestamp]>>],
     [status |-> 200, comments |-> <<[body |-> BadBody, created |-> LateUtc]>>]}
    \cup {[status |-> 200, comments |-> <<[body |-> GoodBody, created |-> t]>>] :
             t \in tracker.created}
    \cup {[status |-> 200,
           comments |-> <<[body |-> BadBody, created |-> BadTimestamp],
                          [body |-> GoodBody, created |-> t]>>] : t \in tracker.created}

\* the deployments the run is checked in: the configured project, the statuses
\* of its workflow and the creation times of its comments
Deployments ==
    {[project |-> "NOOPT", statuses |-> {InProgress, DonePadded, DoneLower},
      created |-> {LateUtc}],
     [project |-> "NOOPT", statuses |-> {Done}, created |-> {EarlyEast, LateUtc}],
     [project |-> "ACME", statuses |-> {InProgress, Done}, created |-> {EarlyEast}]}

(***************************************************************************)
(* main                                                                    *)
(***************************************************************************)
NotParsed == [done |-> FALSE, ok |-> FALSE, val |-> ""]

Init ==
    /\ pc = "start"
    /\ \E d \in Deployments :
          /\ PROJECT_KEY = d.project
          /\ jira = [statuses |-> d.statuses, created |-> d.created]
    /\ plain = FALSE
    /\ epics = <<>>
    /\ ei = 0
    /\ children = <<>>
    /\ subs = <<>>
    /\ parent = NoKey
    /\ issued = 0
    /\ data = <<>>
    /\ excel_data = <<>>
    /\ workbook = NoFile
    /\ error = ""
    /\ doc = Null
    /\ parsed = NotParsed

\* the exception is swallowed and the run goes on
RaiseSwallowed(e) == error' = e /\ pc' = IF pc = "start" THEN "epic" ELSE pc

\* `raise`: the exception leaves the fetch and then main; nothing after the
\* raising call runs
Raise(e) == error' = e /\ pc' = "raised"

\* epics = fetch_issues(JQL_QUERY), and the "No epics found" return
FetchEpics ==
    /\ pc = "start"
    /\ \E reply \in EpicReplies(PROJECT_KEY) :
          IF reply.status # 200
          THEN Raise("HTTPError") /\ UNCHANGED <<epics, ei>>
          ELSE /\ epics' = reply.issues
               /\ ei' = 1
               /\ pc' = IF reply.issues = <<>> THEN "no_epics" ELSE "epic"
               /\ UNCHANGED error
    /\ UNCHANGED <<PROJECT_KEY, jira, children, subs, parent, issued, data, excel_data,
                   workbook, plain, doc, parsed>>

\* where main goes once `left` child issues of epic ei remain
NextChild(left) == IF left = <<>> THEN "epic" ELSE "child"

\* one pass of the loop over the epics, up to the loop over its child issues
FetchChildIssues ==
    /\ pc = "epic"
    /\ ei <= Len(epics)
    /\ \E reply \in IssueReplies(PROJECT_KEY, jira, issued) :
          IF reply.status # 200
          THEN Raise("HTTPError") /\ UNCHANGED <<ei, children, issued, data>>
          ELSE IF reply.issues = <<>>
          THEN /\ data' = Append(data, PlaceholderRecord(epics[ei]))
               /\ ei' = ei + 1
               /\ pc' = "epic"
               /\ UNCHANGED <<children, issued, error>>
          ELSE /\ children' = reply.issues
               /\ issued' = issued + Len(reply.issues)
               /\ pc' = "child"
               /\ UNCHANGED <<ei, data, error>>
    /\ UNCHANGED <<PROJECT_KEY, jira, epics, subs, parent, excel_data, workbook, plain,
                   doc, parsed>>

\* process_child_issue, up to its loop over the sub-tasks
ProcessChildIssue ==
    /\ pc = "child"
    /\ children # <<>>
    /\ \E child_issue \in {Head(children)}, creply \in CommentReplies(jira) :
       \E comment \in {fetch_most_recent_comment(creply)} :
          IF ~comment.ok
          THEN Raise(comment.err) /\ UNCHANGED <<ei, children, subs, parent, issued, data>>
          ELSE /\ data' = Append(data, TaskRecord(epics[ei], child_issue, comment))
               /\ \E sreply \in IssueReplies(PROJECT_KEY, jira, issued) :
                     IF sreply.status # 200
                     THEN Raise("HTTPError") /\ UNCHANGED <<ei, children, subs, parent, issued>>
                     ELSE /\ subs' = sreply.issues
                          /\ issued' = issued + Len(sreply.issues)
                          /\ parent' = child_issue.key
                          /\ children' = Tail(children)
                          /\ UNCHANGED error
                          /\ IF sreply.issues # <<>>
                             THEN pc' = "sub" /\ ei' = ei
                             ELSE /\ pc' = NextChild(Tail(children))
                                  /\ ei' = IF Tail(children) = <<>> THEN ei + 1 ELSE ei
    /\ UNCHANGED <<PROJECT_KEY, jira, epics, excel_data, workbook, plain, doc, parsed>>

\* process_sub_task
ProcessSubTask ==
    /\ pc = "sub"
    /\ subs # <<>>
    /\ \E creply \in CommentReplies(jira) :
       \E comment \in {fetch_most_recent_comment(creply)} :
          IF ~comment.ok
          THEN Raise(comment.err) /\ UNCHANGED <<ei, subs, data>>
          ELSE /\ data' = Append(data, SubTaskRecord(epics[ei], parent, Head(subs), comment))
               /\ subs' = Tail(subs)
               /\ UNCHANGED error
               /\ IF Tail(subs) # <<>>
                  THEN pc' = "sub" /\ ei' = ei
                  ELSE /\ pc' = NextChild(children)
                       /\ ei' = IF children = <<>> THEN ei + 1 ELSE ei
    /\ UNCHANGED <<PROJECT_KEY, jira, epics, children, parent, issued, excel_data, workbook,
                   plain, doc, parsed>>

\* the tail of main: generate_excel_report, then the formatting pass unless
\* --plain was given, then the return of the file name
GenerateAndFormat ==
    /\ pc = "epic"
    /\ ei > Len(epics)
    /\ \E report \in {generate_excel_report(data)} :
       IF ~report.ok
       THEN Raise("KeyError") /\ UNCHANGED <<excel_data, workbook, plain>>
       ELSE /\ excel_data' = report.rows
            /\ \E arg \in BOOLEAN :
                  /\ plain' = arg
                  /\ workbook' = IF arg THEN to_excel(report.rows)
                                 ELSE format_excel_file(to_excel(report.rows))
            /\ pc' = "done"
            /\ UNCHANGED error
    /\ UNCHANGED <<PROJECT_KEY, jira, epics, ei, children, subs, parent, issued, data,
                   doc, parsed>>

Next ==
    \/ FetchEpics
    \/ FetchChildIssues
    \/ ProcessChildIssue
    \/ ProcessSubTask
    \/ GenerateAndFormat

Spec == Init /\ [][Next]_vars

(***************************************************************************)
(* The parser on its own: parse_comment applied to one comment body.       *)
(***************************************************************************)
Text(t) == Dict([type |-> Str("text"), text |-> Str(t)])
HardBreak == Dict([type |-> Str("hardBreak")])
Paragraph(cs) == Dict([type |-> Str("paragraph"), content |-> List(cs)])
ListItem(cs) == Dict([type |-> Str("listItem"), content |-> List(cs)])
BulletList(cs) == Dict([type |-> Str("bulletList"), content |-> List(cs)])
OrderedList(cs) == Dict([type |-> Str("orderedList"), content |-> List(cs)])
CodeBlock == Dict([type |-> Str("codeBlock"), content |-> List(<<Text("x = 1")>>)])
Doc(bs) == Dict([type |-> Str("doc"), version |-> Str("1"), content |-> List(bs)])

Runs == {Text("a"), Text("b"), HardBreak}
Paragraphs ==
    {Paragraph(cs) : cs \in SeqsUpTo(Runs, MaxRuns)} \cup {Dict([type |-> Str("paragraph")])}
ItemChildren == {Paragraph(<<Text("a")>>), Paragraph(<<Text("b")>>), BulletList(<<>>)}
ListItems == {ListItem(cs) : cs \in SeqsUpTo(ItemChildren, MaxRuns)}
ListChildren ==
    {ListItem(<<Paragraph(<<Text("a")>>)>>), ListItem(<<Paragraph(<<Text("b")>>)>>),
     Paragraph(<<Text("a")>>)}
Lists ==
    {BulletList(cs) : cs \in SeqsUpTo(ListChildren, MaxRuns)}
    \cup {OrderedList(cs) : cs \in SeqsUpTo(ListChildren, MaxRuns)}
TopBlocks == Paragraphs \cup ListItems \cup Lists \cup {CodeBlock}
JoinedBlocks ==
    {Paragraph(<<Text("a")>>), Paragraph(<<Text("b")>>), Paragraph(<<>>), CodeBlock,
     BulletList(<<ListItem(<<Paragraph(<<Text("a")>>)>>),
                  ListItem(<<Paragraph(<<Text("b")>>)>>)>>)}

\* blocks outside the documented shapes
OddBlocks ==
    {Dict([text |-> Str("a")]), Str("a"), Null,
     Paragraph(<<Dict([type |-> Str("text")])>>),
     Paragraph(<<Dict([text |-> Str("a")])>>),
     Paragraph(<<Str("a")>>),
     Paragraph(<<Dict([type |-> Str("text"), text |-> Null])>>),
     ListItem(<<Paragraph(<<Dict([type |-> Str("text")])>>)>>),
     BulletList(<<Dict([text |-> Str("a")])>>)}

CommentBodies ==
    {Doc(<<b>>) : b \in TopBlocks}
    \cup {Doc(bs) : bs \in SeqsUpTo(JoinedBlocks, MaxBlocks)}
    \cup {Doc(<<b>>) : b \in OddBlocks}
    \cup {Dict([type |-> Str("doc")]), Dict([type |-> Str("doc"), content |-> Null])}
    \cup {Null, Str("plain text"), Str(""), List(<<>>), List(<<Text("a")>>),
          Dict([version |-> Str("1")]), Paragraph(<<Text("a")>>)}

InitParse ==
    /\ pc = "parse"
    /\ PROJECT_KEY = "NOOPT"
    /\ jira = [statuses |-> {}, created |-> {}]
    /\ plain = FALSE
    /\ epics = <<>>
    /\ ei = 0
    /\ children = <<>>
    /\ subs = <<>>
    /\ parent = NoKey
    /\ issued = 0
    /\ data = <<>>
    /\ excel_data = <<>>
    /\ workbook = NoFile
    /\ error = ""
    /\ doc \in CommentBodies
    /\ parsed = NotParsed

\* comment_body = parse_comment(recent_comment["body"])
ParseComment ==
    /\ pc = "parse"
    /\ \E r \in {parse_comment(doc)} : parsed' = [done |-> TRUE, ok |-> r.ok, val |-> r.val]
    /\ pc' = "parsed"
    /\ UNCHANGED <<PROJECT_KEY, jira, epics, ei, children, subs, parent, issued, data,
                   excel_data, workbook, plain, error, doc>>

NextParse == ParseComment

SpecParse == InitParse /\ [][NextParse]_vars

(***************************************************************************)
(* Properties of the parser.                                               *)
(***************************************************************************)
IsDocRoot(v) == v.j = "dict" /\ "type" \in DOMAIN v.d /\ v.d.type = Str("doc")

RECURSIVE WellFormedBlock(_)
\* a block of the documented record shape: an object with a type tag, whose
\* content (when present) is a list of such blocks and whose text (on a text
\* run) is a string
WellFormedBlock(b) ==
    /\ b.j = "dict"
    /\ "type" \in DOMAIN b.d
    /\ b.d.type.j = "str"
    /\ b.d.type = Str("text") => "text" \in DOMAIN b.d /\ b.d.text.j = "str"
    /\ "content" \in DOMAIN b.d =>
          /\ b.d.content.j = "list"
          /\ \A n \in 1..Len(b.d.content.xs) : WellFormedBlock(b.d.content.xs[n])

WellFormed(v) == IsDocRoot(v) => WellFormedBlock(v)

\* the children of a well-formed block that carry the type tag t
ChildrenOfType(b, t) ==
    IF "content" \in DOMAIN b.d
    THEN SelectSeq(b.d.content.xs, LAMBDA c : c.d.type = Str(t))
    ELSE <<>>

RefParagraph(b) ==
    LET runs == ChildrenOfType(b, "text")
    IN Join(" ", [n \in 1..Len(runs) |-> runs[n].d.text.s])

RefListItem(b) ==
    LET ps == ChildrenOfType(b, "paragraph")
    IN "- " \o Join(" ", [n \in 1..Len(ps) |-> RefParagraph(ps[n])])

RefList(b) ==
    LET items == ChildrenOfType(b, "listItem")
    IN Join("\n", [n \in 1..Len(items) |-> RefListItem(items[n])])

RefBlock(b) ==
    CASE b.d.type = Str("paragraph") -> RefParagraph(b)
      [] b.d.type = Str("listItem") -> RefListItem(b)
      [] b.d.type = Str("orderedList") -> RefList(b)
      [] b.d.type = Str("bulletList") -> RefList(b)
      [] OTHER -> ""

\* the reference extraction of a well-formed doc root
Reference(v) ==
    LET blocks == IF "content" \in DOMAIN v.d THEN v.d.content.xs ELSE <<>>
        reduced == [n \in 1..Len(blocks) |-> RefBlock(blocks[n])]
    IN Join("\n", SelectSeq(reduced, LAMBDA t : t # ""))

\* C7: parse_comment is total: for every input it returns a string and never
\* raises (stated as claimed; the code raises on blocks outside the documented
\* shapes).
C7_ParseCommentTotal == parsed.done => parsed.ok

\* C8: on every well-formed input parse_comment returns; for an input that is
\* no doc root the result is a non-empty serialization, for a doc root it is the
\* reference extraction (newline-join of the non-empty block reductions).
C8_ParseCommentMatchesReference ==
    (parsed.done /\ WellFormed(doc)) =>
        /\ parsed.ok
        /\ IF IsDocRoot(doc) THEN parsed.val = Reference(doc)
           ELSE parsed.val # ""

\* C8 witness: a bullet list of two items has been reduced to "- a\n- b"
C8_Witness ==
    /\ parsed.done
    /\ doc = Doc(<<BulletList(<<ListItem(<<Paragraph(<<Text("a")>>)>>),
                                ListItem(<<Paragraph(<<Text("b")>>)>>)>>)>>)
    /\ parsed.val = "- a\n- b"

(***************************************************************************)
(* Properties of the report.  Rows are read from excel_data (the layout)   *)
(* and from workbook (the saved file); row n of the file is row n of the   *)
(* layout.                                                                 *)
(***************************************************************************)
Saved == pc = "done"

IsHeaderRow(r) == r.A.kind = "header"
IsSpacerRow(r) == r.A = SpacerMark
IsTaskRow(r) == r.G = PyInt(0)
IsSubTaskRow(r) == r.G = PyInt(1)

\* the key the header row names
HeaderKey(r) == KeyText(r.A.proj, r.A.num)

\* index of the header row of the block that row n lies in
BlockStart(n) == CHOOSE h \in 1..n :
                    /\ IsHeaderRow(excel_data[h])
                    /\ \A k \in (h + 1)..n : ~IsHeaderRow(excel_data[k])

\* the record of `data` that row n of the layout was built from
RecordOf(n) == data[CHOOSE k \in 1..Len(data) : data[k].ChildKey = excel_data[n].B]

\* the status bucket of the claimed precedence
Bucket(status) ==
    IF status = InProgress THEN 1
    ELSE IF status = Waiting THEN 2
    ELSE IF status = ForApproval THEN 3
    ELSE IF status = New THEN 4
    ELSE 5

\* C1: the epic blocks of the layout appear in the order in which main received
\* the epics (stated as claimed; groupby orders the blocks by key text).
C1_BlocksInInputOrder ==
    Saved =>
        LET headers == SelectSeq(excel_data, IsHeaderRow)
        IN /\ Len(headers) = Len(epics)
           /\ \A n \in 1..Len(epics) : HeaderKey(headers[n]) = epics[n].key

\* C2: an epic without child issues is laid out as exactly its header row, one
\* placeholder row "No tasks created" with empty status, date and comment and
\* no Done highlight, and the spacer row (stated as claimed; the placeholder
\* record matches neither Type and is left out).
C2_PlaceholderBlock ==
    Saved =>
        \A k \in 1..Len(data) :
            data[k] = PlaceholderRecord([key |-> data[k].EpicKey,
                                         summary |-> data[k].EpicSummary]) =>
                \E h \in 1..Len(excel_data) :
                    /\ IsHeaderRow(excel_data[h])
                    /\ HeaderKey(excel_data[h]) = data[k].EpicKey
                    /\ h + 2 <= Len(excel_data)
                    /\ excel_data[h + 1].C = "No tasks created"
                    /\ excel_data[h + 1].D \in {<<>>, NaNStatus}
                    /\ excel_data[h + 1].E \in {EmptyDate, None}
                    /\ excel_data[h + 1].F = ""
                    /\ workbook.rows[h + 1].done_fill = {}
                    /\ IsSpacerRow(excel_data[h + 2])

C4_NewestCommentFirst ==
    Saved =>
        \A m, n \in 1..Len(excel_data) :
            (/\ m < n
             /\ BlockStart(m) = BlockStart(n)
             /\ IsTaskRow(excel_data[m]) /\ IsTaskRow(excel_data[n])
             /\ Bucket(excel_data[m].D) = Bucket(excel_data[n].D)) =>
                LET a == excel_data[m].E
                    b == excel_data[n].E
                IN /\ a.kind # "date" => b.kind # "date"
                   /\ (a.kind = "date" /\ b.kind = "date") => Instant(a) >= Instant(b)

\* C5: every sub-task row immediately follows its parent's task row or a
\* sub-task row of the same parent, and lies in the block of the epic it was
\* fetched under.
C5_SubTasksFollowParent ==
    Saved =>
        \A n \in 1..Len(excel_data) :
            IsSubTaskRow(excel_data[n]) =>
                /\ n > 1
                /\ LET prev == excel_data[n - 1]
                   IN \/ IsTaskRow(prev) /\ prev.B = RecordOf(n).Parent
                      \/ IsSubTaskRow(prev) /\ RecordOf(n - 1).Parent = RecordOf(n).Parent
                /\ HeaderKey(excel_data[BlockStart(n)]) = RecordOf(n).EpicKey

\* C5 witness: a saved layout with two task rows and a sub-task row under the
\* task that was fetched first but sorted second
C5_Witness ==
    /\ Saved
    /\ \E m, n \in 1..Len(excel_data) :
          /\ n = m + 2
          /\ IsTaskRow(excel_data[m]) /\ IsTaskRow(excel_data[m + 1])
          /\ IsSubTaskRow(excel_data[n])
          /\ excel_data[m].B.num > excel_data[m + 1].B.num
          /\ RecordOf(n).Parent = excel_data[m + 1].B

\* the characters of a status in lower case
Lower(c) ==
    CASE c = "D" -> "d" [] c = "I" -> "i" [] c = "P" -> "p" [] c = "N" -> "n"
      [] c = "W" -> "w" [] c = "F" -> "f" [] OTHER -> c

\* a status without its surrounding blanks
RECURSIVE Trimmed(_)
Trimmed(t) ==
    IF t = <<>> THEN t
    ELSE IF t[1] = " " THEN Trimmed(Tail(t))
    ELSE IF t[Len(t)] = " " THEN Trimmed(SubSeq(t, 1, Len(t) - 1))
    ELSE t

Highlighted(r) == {"B", "C", "D", "E", "F"} \subseteq r.done_fill

\* C6 as claimed: in a formatted report a task or sub-task row is highlighted
\* exactly when its status equals "Done" after case and whitespace
\* normalization (the code strips the status but compares it case-sensitively).
C6_DoneHighlightAnyCase ==
    (Saved /\ ~plain) =>
        \A n \in 1..Len(excel_data) :
            (IsTaskRow(excel_data[n]) \/ IsSubTaskRow(excel_data[n])) =>
                LET t == Trimmed(excel_data[n].D)
                IN Highlighted(workbook.rows[n])
                   <=> [k \in 1..Len(t) |-> Lower(t[k])] = DoneLower

\* C6 as amended: in a report that went through the formatting pass, a task or
\* sub-task row is highlighted exactly when its own status, stripped of
\* surrounding whitespace and compared case-sensitively, equals "Done", whatever
\* the status of its parent; header and spacer rows are never highlighted.
C6_DoneHighlight ==
    (Saved /\ ~plain) =>
        \A n \in 1..Len(excel_data) :
            IF IsTaskRow(excel_data[n]) \/ IsSubTaskRow(excel_data[n])
            THEN /\ Highlighted(workbook.rows[n]) <=> Trimmed(excel_data[n].D) = Done
                 /\ ~Highlighted(workbook.rows[n]) => workbook.rows[n].done_fill = {}
            ELSE workbook.rows[n].done_fill = {}

\* C6 witness: a formatted report with a highlighted sub-task whose status is
\* " Done " under a parent task that is not Done and not highlighted
C6_Witness ==
    /\ Saved /\ ~plain
    /\ \E m, n \in 1..Len(excel_data) :
          /\ IsTaskRow(excel_data[m]) /\ IsSubTaskRow(excel_data[n])
          /\ RecordOf(n).Parent = excel_data[m].B
          /\ excel_data[m].D = InProgress /\ ~Highlighted(workbook.rows[m])
          /\ excel_data[n].D = DonePadded /\ Highlighted(workbook.rows[n])

\* C9: once a fetch of epics, child issues, sub-tasks or comments has failed
\* (a timestamp in neither format included), the exception has left main, no
\* report file exists, and no further step of the run is taken.
C9_FetchFailureAborts ==
    /\ [](error # "" => pc = "raised" /\ workbook = NoFile /\ excel_data = <<>>)
    /\ [][pc # "raised"]_vars

\* C9 witness: a comment timestamp in neither format stopped the run after a
\* first record was collected and before the last epic was reached
C9_Witness ==
    /\ pc = "raised" /\ error = "ValueError"
    /\ Len(data) >= 1
    /\ ei < Len(epics)
    /\ workbook = NoFile

\* C10: in the saved report, formatted or plain, the spacer row that ends each
\* epic block has only empty cells (stated as claimed; a plain report keeps
\* the marker of the spacer row in column A).
C10_SpacerRowEmpty ==
    Saved =>
        \A n \in 1..Len(excel_data) :
            IsSpacerRow(excel_data[n]) =>
                LET r == workbook.rows[n]
                IN /\ r.A = None /\ r.B = None /\ r.C = "" /\ r.D = <<>>
                   /\ r.E = None /\ r.F = "" /\ r.G = None

\* the formatting pass classified row r of the file as an epic header
ClassifiedHeader(r) == r.merged = "A:F" /\ r.header_style

\* C11: in a formatted report a row is classified as an epic header (merged
\* over A-F, header style) exactly when the layout emitted it as the header
\* row of an epic of the configured project key; task, sub-task and spacer
\* rows never are (stated as claimed; the pattern names the project NOOPT
\* whatever PROJECT_KEY is, so the headers of another project are missed).
C11_HeaderClassification ==
    (Saved /\ ~plain) =>
        \A n \in 1..Len(excel_data) :
            ClassifiedHeader(workbook.rows[n]) <=>
                /\ IsHeaderRow(excel_data[n])
                /\ excel_data[n].A.proj = PROJECT_KEY

\* every epic of a non-empty epic fetch has been processed: all fetches of the
\* run succeeded and `data` holds their records
AllFetched == pc = "epic" /\ epics # <<>> /\ ei > Len(epics)

\* C12: when the epic fetch returned at least one epic and every fetch
\* succeeded, the step that follows the collection saves a report file and
\* ends the run without raising, whatever the hierarchy: tasks with
\* sub-tasks, tasks without any sub-task, epics without tasks (stated as
\* claimed; a run without any sub-task, or without any task, raises KeyError
\* in generate_excel_report).
C12_RunSavesReport ==
    [][AllFetched => (pc' = "done" /\ error' = "" /\ workbook'.saved)]_vars

\* a record of a fetched task or sub-task
IsWorkItem(rec) == rec.Type \in {"Task", "Sub-Task"}

\* the rows of the layout that show the work item of record rec
RowsOf(rec) ==
    {n \in 1..Len(excel_data) :
        /\ IsTaskRow(excel_data[n]) \/ IsSubTaskRow(excel_data[n])
        /\ excel_data[n].B = rec.ChildKey}

\* the key cell of row r of the saved file (column A once a task row has been
\* formatted, column B otherwise)
FileKey(r) == IF r.B # None THEN r.B ELSE r.A

\* C13: in a run that saved a report, every fetched task and sub-task is
\* shown by exactly one data row, built from its record, in the block of the
\* epic it was fetched under, and the file keeps its key in that row; the
\* layout has no data row beyond these.
C13_EveryItemOnce ==
    Saved =>
        /\ \A k \in 1..Len(data) :
              IsWorkItem(data[k]) =>
                 /\ Cardinality(RowsOf(data[k])) = 1
                 /\ \A n \in RowsOf(data[k]) :
                       /\ excel_data[n] = DataRow(data[k])
                       /\ HeaderKey(excel_data[BlockStart(n)]) = data[k].EpicKey
                       /\ FileKey(workbook.rows[n]) = data[k].ChildKey
        /\ Cardinality({n \in 1..Len(excel_data) :
                           IsTaskRow(excel_data[n]) \/ IsSubTaskRow(excel_data[n])})
              = Cardinality({k \in 1..Len(data) : IsWorkItem(data[k])})

\* C13 witness: a saved report of two epics that both have a task, one of them
\* with a sub-task, whose blocks are not in the order the records were fetched
C13_Witness ==
    /\ Saved
    /\ \E j, k, l \in 1..Len(data) :
          /\ j < k
          /\ data[j].Type = "Task" /\ data[k].Type = "Task"
          /\ data[j].EpicKey # data[k].EpicKey
          /\ data[l].Type = "Sub-Task"
          /\ \E m \in RowsOf(data[j]), n \in RowsOf(data[k]) : n < m

====
